---- MODULE Spec2Model ----
(***************************************************************************)
(* Model of the step-wise maze generator of puzzler (src/src/main.rs):     *)
(* the coordinate mapping `index`, the Cell/Grid data model, Grid::new,    *)
(* Grid::get_random_neighbor, Grid::remove_wall and Grid::update_current.  *)
(* Cell indices are the program's 0-based usize values; the TLA+ sequence  *)
(* `cells` holds the cell with index i at position i + 1.                  *)
(***************************************************************************)
EXTENDS Integers, Sequences, FiniteSets, TLC

VARIABLES rows, cols, cells, stack, current, next, steps, origin, outcome

vars == <<rows, cols, cells, stack, current, next, steps, origin, outcome>>

\* Grids of up to MaxDim rows and MaxDim columns with at most MaxCells cells
\* are explored.
MaxDim == 3
MaxCells == 9
\* The count of update_current calls made on a grid saturates here.
MaxSteps == 2 * MaxCells

\* Option<usize>::None; Some(i) is the natural number i.
None == -1

----------------------------------------------------------------------------
(* index, main.rs 11-17 *)

index_LooseBound(row, col, rws, cls) ==
    IF row < 0 \/ col < 0 \/ row > rws \/ col > cls
    THEN None
    ELSE row * rws + col

index(row, col, rws, cls) ==
    IF row < 0 \/ col < 0 \/ row > rws - 1 \/ col > cls - 1
    THEN None
    ELSE row * rws + col

----------------------------------------------------------------------------
(* Cell and Grid::new, main.rs 19-42 and 107-130 *)

DefaultCell ==
    [row |-> 0, col |-> 0, visited |-> FALSE,
     top |-> TRUE, bot |-> TRUE, left |-> TRUE, right |-> TRUE]

\* The nested loops of Grid::new push (row, col) in row-major order, so the
\* cell pushed at 0-based position p has row p / cols and col p % cols.
NewCells(rws, cls) ==
    [p \in 1..(rws * cls) |->
        [DefaultCell EXCEPT !.row = (p - 1) \div cls, !.col = (p - 1) % cls]]

\* self.cells[i]
At(cs, i) == cs[i + 1]

\* self.cells.get(i).is_some()
InVec(cs, i) == i >= 0 /\ i < Len(cs)

----------------------------------------------------------------------------
(* Grid::get_random_neighbor, main.rs 132-177 *)

neighbor_index_NoColPlus(g) ==
    LET cell == At(g.cells, g.current) IN
    << index(cell.row - 1, cell.col, g.rows, g.cols),
       index(cell.row + 1, cell.col, g.rows, g.cols),
       index(cell.row, cell.col - 1, g.rows, g.cols) >>

\* The four candidates in the order of the vec! literal.
neighbor_index(g) ==
    LET cell == At(g.cells, g.current) IN
    << index(cell.row - 1, cell.col, g.rows, g.cols),
       index(cell.row + 1, cell.col, g.rows, g.cols),
       index(cell.row, cell.col - 1, g.rows, g.cols),
       index(cell.row, cell.col + 1, g.rows, g.cols) >>

neighbors_NoVisitedFilter(g) ==
    LET Keep(i) == i # None /\ InVec(g.cells, i)
    IN  SelectSeq(neighbor_index(g), Keep)

\* The vector `neighbors` after the for loop.
neighbors(g) ==
    LET Keep(i) == i # None /\ InVec(g.cells, i) /\ ~At(g.cells, i).visited
    IN  SelectSeq(neighbor_index(g), Keep)

\* Number of values fastrand::usize(..neighbors.len()) can return; when the
\* vector is empty no draw is made and the single draw 0 stands for it.
Draws(g) == IF neighbors(g) = <<>> THEN 1 ELSE Len(neighbors(g))

get_random_neighbor(g, r) ==
    IF neighbors(g) = <<>> THEN None ELSE neighbors(g)[r + 1]

----------------------------------------------------------------------------
(* Grid::remove_wall, main.rs 180-208 *)

remove_wall_SwappedSides(cs, cur, nxt) ==
    LET x == At(cs, cur).col - At(cs, nxt).col
        c1 == IF x = 1
              THEN [[cs EXCEPT ![cur + 1].right = FALSE]
                        EXCEPT ![nxt + 1].left = FALSE]
              ELSE IF x = -1
              THEN [[cs EXCEPT ![cur + 1].left = FALSE]
                        EXCEPT ![nxt + 1].right = FALSE]
              ELSE cs
        y == At(c1, cur).row - At(c1, nxt).row
    IN  IF y = 1
        THEN [[c1 EXCEPT ![cur + 1].top = FALSE]
                  EXCEPT ![nxt + 1].bot = FALSE]
        ELSE IF y = -1
        THEN [[c1 EXCEPT ![cur + 1].bot = FALSE]
                  EXCEPT ![nxt + 1].top = FALSE]
        ELSE c1

remove_wall(cs, cur, nxt) ==
    LET x == At(cs, cur).col - At(cs, nxt).col
        c1 == IF x = 1
              THEN [[cs EXCEPT ![cur + 1].left = FALSE]
                        EXCEPT ![nxt + 1].right = FALSE]
              ELSE IF x = -1
              THEN [[cs EXCEPT ![cur + 1].right = FALSE]
                        EXCEPT ![nxt + 1].left = FALSE]
              ELSE cs
        y == At(c1, cur).row - At(c1, nxt).row
    IN  IF y = 1
        THEN [[c1 EXCEPT ![cur + 1].top = FALSE]
                  EXCEPT ![nxt + 1].bot = FALSE]
        ELSE IF y = -1
        THEN [[c1 EXCEPT ![cur + 1].bot = FALSE]
                  EXCEPT ![nxt + 1].top = FALSE]
        ELSE c1

----------------------------------------------------------------------------
(* Grid::update_current, main.rs 210-223 *)

\* stack.pop_back() with the fall-through of `if let Some(popped)`:
\* the pair <<new current, new stack>>.
pop_back_UnwrapOrZero(stk, cur) ==
    IF stk # <<>>
    THEN <<stk[Len(stk)], SubSeq(stk, 1, Len(stk) - 1)>>
    ELSE <<0, stk>>

pop_back(stk, cur) ==
    IF stk # <<>>
    THEN <<stk[Len(stk)], SubSeq(stk, 1, Len(stk) - 1)>>
    ELSE <<cur, stk>>

update_current_NextUnchecked(g, r) ==
    LET nxt    == get_random_neighbor(g, r)
        marked == [g.cells EXCEPT ![g.current + 1].visited = TRUE]
    IN  IF nxt # None
        THEN [g EXCEPT !.next = nxt,
                       !.cells = remove_wall(marked, g.current, nxt),
                       !.stack = Append(g.stack, g.current),
                       !.current = nxt]
        ELSE [g EXCEPT !.next = None,
                       !.cells = marked,
                       !.current = nxt,
                       !.stack = pop_back(g.stack, g.current)[2]]

update_current_OnlyCurrentVisited(g, r) ==
    LET nxt    == get_random_neighbor(g, r)
        marked == [i \in 1..Len(g.cells) |->
                     [g.cells[i] EXCEPT !.visited = (i = g.current + 1)]]
    IN  IF nxt # None
        THEN [g EXCEPT !.next = nxt,
                       !.cells = remove_wall(marked, g.current, nxt),
                       !.stack = Append(g.stack, g.current),
                       !.current = nxt]
        ELSE [g EXCEPT !.next = None,
                       !.cells = marked,
                       !.current = pop_back(g.stack, g.current)[1],
                       !.stack = pop_back(g.stack, g.current)[2]]

update_current(g, r) ==
    LET nxt    == get_random_neighbor(g, r)
        marked == [g.cells EXCEPT ![g.current + 1].visited = TRUE]
    IN  IF nxt # None
        THEN [g EXCEPT !.next = nxt,
                       !.cells = remove_wall(marked, g.current, nxt),
                       !.stack = Append(g.stack, g.current),
                       !.current = nxt]
        ELSE [g EXCEPT !.next = None,
                       !.cells = marked,
                       !.current = pop_back(g.stack, g.current)[1],
                       !.stack = pop_back(g.stack, g.current)[2]]

\* The struct literal of Grid::new, before the call of update_current.
GridLiteral(rws, cls, start) ==
    [rows |-> rws, cols |-> cls, cells |-> NewCells(rws, cls),
     stack |-> <<>>, current |-> start, next |-> None]

GridNew_NoStep(rws, cls, start, r) == GridLiteral(rws, cls, start)

\* Grid::new: start is the draw fastrand::usize(..rows * cols), r the draw
\* made by the update_current call that ends the constructor.
GridNew(rws, cls, start, r) == update_current(GridLiteral(rws, cls, start), r)

----------------------------------------------------------------------------
(* The state machine *)

\* How the call Grid::new(rws, cls) ends: fastrand::usize(..rws * cls)
\* panics on an empty range, otherwise the constructor returns a grid.
\* The code has no path that reports an error ("error").
NewOutcome(rws, cls) == IF rws * cls = 0 THEN "panic" ELSE "grid"

Grid == [rows |-> rows, cols |-> cols, cells |-> cells,
         stack |-> stack, current |-> current, next |-> next]

Install(g) ==
    /\ rows' = g.rows
    /\ cols' = g.cols
    /\ cells' = g.cells
    /\ stack' = g.stack
    /\ current' = g.current
    /\ next' = g.next

Init ==
    \E rws \in 1..MaxDim, cls \in 1..MaxDim :
      \E start \in 0..(rws * cls - 1), r \in 0..3 :
        /\ rws * cls <= MaxCells
        /\ r < Draws(GridLiteral(rws, cls, start))
        /\ LET g == GridNew(rws, cls, start, r) IN
             /\ rows = g.rows
             /\ cols = g.cols
             /\ cells = g.cells
             /\ stack = g.stack
             /\ current = g.current
             /\ next = g.next
        /\ steps = 0
        /\ origin = start
        /\ outcome = NewOutcome(rws, cls)

\* Grid::new called with a zero dimension: the cell loops push nothing and
\* the draw of the starting cell panics, so no Grid comes to exist.
PanicInit ==
    \E rws \in 0..MaxDim, cls \in 0..MaxDim :
      /\ NewOutcome(rws, cls) = "panic"
      /\ rows = rws
      /\ cols = cls
      /\ cells = NewCells(rws, cls)
      /\ stack = <<>>
      /\ current = None
      /\ next = None
      /\ steps = 0
      /\ origin = None
      /\ outcome = "panic"

\* Every call Grid::new(rows, cols) with dimensions 0..MaxDim.
ConstructInit == Init \/ PanicInit

\* grid.update_current() of the frame loop.
Step ==
    /\ outcome = "grid"
    /\ \E r \in 0..3 :
         /\ r < Draws(Grid)
         /\ Install(update_current(Grid, r))
         /\ steps' = IF steps < MaxSteps THEN steps + 1 ELSE steps
    /\ UNCHANGED <<origin, outcome>>

\* grid = Grid::new(rows, cols) on key R.
Restart ==
    /\ outcome = "grid"
    /\ \E start \in 0..(rows * cols - 1), r \in 0..3 :
         /\ r < Draws(GridLiteral(rows, cols, start))
         /\ Install(GridNew(rows, cols, start, r))
         /\ steps' = 0
         /\ origin' = start
    /\ UNCHANGED outcome

Next == Step \/ Restart

Spec == Init /\ [][Next]_vars

\* The frame loop calls update_current once per frame, for ever; without
\* restarts every enabled step is eventually taken.
FairSpec == Init /\ [][Step]_vars /\ WF_vars(Step)

\* The grids the driver builds from its 800 x 800 window: rows = cols.
SquareInit == Init /\ rows = cols

SquareSpec == SquareInit /\ [][Next]_vars

\* The program started with any dimensions, zero included; after a panic
\* nothing runs.
ConstructSpec == ConstructInit /\ [][Next]_vars

----------------------------------------------------------------------------
(* Vocabulary of the properties *)

CellIdx == 0..(Len(cells) - 1)

\* Stack empty and get_random_neighbor finds nothing for current.
Complete == stack = <<>> /\ get_random_neighbor(Grid, 0) = None

AllVisited == \A i \in CellIdx : At(cells, i).visited

AllWalls(c) == c.top /\ c.bot /\ c.left /\ c.right

\* 4-adjacency of the cells with indices a and b, by their coordinates.
Adjacent(a, b) ==
    LET A == At(cells, a)
        B == At(cells, b)
    IN  \/ A.row = B.row /\ (A.col = B.col + 1 \/ B.col = A.col + 1)
        \/ A.col = B.col /\ (A.row = B.row + 1 \/ B.row = A.row + 1)

\* The wall flag of cell a that faces the adjacent cell b.
WallToward(a, b) ==
    LET A == At(cells, a)
        B == At(cells, b)
    IN  IF B.col = A.col + 1 THEN A.right
        ELSE IF B.col = A.col - 1 THEN A.left
        ELSE IF B.row = A.row + 1 THEN A.bot
        ELSE A.top

\* The wall pair between a and b is removed.
Open(a, b) == Adjacent(a, b) /\ ~WallToward(a, b) /\ ~WallToward(b, a)

RemovedPairs == {e \in SUBSET CellIdx :
                   \E a \in e, b \in e : a < b /\ e = {a, b} /\ Open(a, b)}

RECURSIVE ReachFrom(_)
ReachFrom(S) ==
    LET T == S \cup {b \in CellIdx : \E a \in S : Open(a, b)}
    IN  IF T = S THEN S ELSE ReachFrom(T)

----------------------------------------------------------------------------
(* Properties *)

\* C1: stepping eventually reaches Complete, and whenever the grid is
\* Complete every one of the rows * cols cells is visited.
C1_CompleteVisitsAll ==
    /\ <>Complete
    /\ [](Complete => (Len(cells) = rows * cols /\ AllVisited))

\* C2: at Complete the removed wall pairs are a spanning tree of the grid
\* graph: rows * cols - 1 removed pairs and every cell reachable from cell 0
\* through removed walls (a connected graph with one edge less than it has
\* vertices has no cycle).
C2_SpanningTreeAtComplete ==
    Complete =>
      /\ Cardinality(RemovedPairs) = rows * cols - 1
      /\ ReachFrom({0}) = CellIdx

\* C3: for every pair of 4-adjacent cells the two wall flags that face each
\* other are equal.
C3_WallSymmetry ==
    \A a \in CellIdx, b \in CellIdx :
      Adjacent(a, b) => (WallToward(a, b) = WallToward(b, a))

\* C4 as stated: the grid returned by Grid::new (no step made on it since)
\* is all-walled and unvisited and has an empty stack.
C4_FreshGridUntouched ==
    steps = 0 =>
      /\ \A i \in CellIdx : AllWalls(At(cells, i)) /\ ~At(cells, i).visited
      /\ stack = <<>>

\* C4 amended: the grid returned by Grid::new has had one step applied to an
\* all-walled, unvisited grid: exactly the starting cell is visited; either
\* the stack is empty, current is the starting cell, next is None and every
\* wall stands, or the stack holds just the starting cell, next is
\* Some(current), current is unvisited unless it is the starting cell, and
\* walls are missing on the starting cell and current only.
C4_FreshGridAfterOneStep ==
    steps = 0 =>
      LET start == IF stack = <<>> THEN current ELSE stack[1] IN
      /\ Len(cells) = rows * cols
      /\ Len(stack) <= 1
      /\ \A i \in CellIdx :
           /\ At(cells, i).visited <=> (i = start)
           /\ i \notin {start, current} => AllWalls(At(cells, i))
      /\ stack = <<>> => next = None /\ \A i \in CellIdx : AllWalls(At(cells, i))
      /\ stack # <<>> => next = current

C4_Witness ==
    /\ steps = 0
    /\ stack # <<>>
    /\ ~AllWalls(At(cells, current))
    /\ ~AllWalls(At(cells, stack[1]))

\* C5: every in-bounds coordinate maps to a flat index of the cell vector
\* whose cell has that row and col, and distinct in-bounds coordinates map
\* to distinct indices.
C5_IndexRoundTrip ==
    \A r1 \in 0..(rows - 1), c1 \in 0..(cols - 1) :
      LET i1 == index(r1, c1, rows, cols) IN
      /\ InVec(cells, i1)
      /\ At(cells, i1).row = r1
      /\ At(cells, i1).col = c1
      /\ \A r2 \in 0..(rows - 1), c2 \in 0..(cols - 1) :
           index(r2, c2, rows, cols) = i1 => (r2 = r1 /\ c2 = c1)

\* C6: index returns None exactly for a negative or too large row or col,
\* and a natural number (Some) otherwise.
C6_IndexNoneIffOutOfRange ==
    \A row \in (-2)..(MaxDim + 1), col \in (-2)..(MaxDim + 1) :
      LET i == index(row, col, rows, cols) IN
      /\ (i = None) <=> (row < 0 \/ col < 0 \/ row >= rows \/ col >= cols)
      /\ i # None => i \in Nat

C6_Witness ==
    /\ steps >= 1
    /\ \E k \in 1..4 : neighbor_index(Grid)[k] = None
    /\ \E k \in 1..4 : neighbor_index(Grid)[k] # None

\* C7: a step taken in a Complete state changes neither current, the stack,
\* a wall flag nor a visited flag, and derives next = None.
C7_CompleteAbsorbing ==
    [][(Complete /\ Step) =>
         /\ current' = current
         /\ stack' = <<>>
         /\ cells' = cells
         /\ next' = None]_vars

C7_Witness ==
    /\ Complete
    /\ steps = MaxSteps
    /\ Len(cells) > 1
    /\ AllVisited
    /\ next = None

\* C8 as stated: the grid is Complete if and only if every cell is visited.
C8_CompleteIffAllVisited == Complete <=> AllVisited

\* C8 amended (square grids): Complete implies that every cell is visited,
\* and once every cell is visited the grid is Complete exactly when the
\* stack is empty (the last cell is visited before the stack has unwound).
C8_CompleteVersusAllVisited ==
    /\ Complete => AllVisited
    /\ AllVisited => (Complete <=> stack = <<>>)

C8_Witness ==
    /\ rows = cols
    /\ rows > 1
    /\ Complete
    /\ AllVisited
    /\ steps >= 1

\* C9: every value get_random_neighbor can return is None or the in-range
\* index of an unvisited cell 4-adjacent to current, and it is None exactly
\* when no cell 4-adjacent to current is unvisited.
C9_NeighborIsUnvisitedAdjacent ==
    \A r \in 0..(Draws(Grid) - 1) :
      LET n == get_random_neighbor(Grid, r) IN
      /\ n # None =>
           /\ InVec(cells, n)
           /\ ~At(cells, n).visited
           /\ Adjacent(current, n)
      /\ (n = None) <=>
           ~\E b \in CellIdx : Adjacent(current, b) /\ ~At(cells, b).visited

\* C10: across a step no visited flag goes from true to false, no wall flag
\* goes from false to true, the cell vector keeps its length, and a wall
\* flag changes only when the step called remove_wall (next is Some).
C10_Monotonic ==
    [][Step =>
         /\ Len(cells') = Len(cells)
         /\ \A i \in 1..Len(cells) :
              /\ cells[i].visited => cells'[i].visited
              /\ ~cells[i].top => ~cells'[i].top
              /\ ~cells[i].bot => ~cells'[i].bot
              /\ ~cells[i].left => ~cells'[i].left
              /\ ~cells[i].right => ~cells'[i].right
              /\ next' = None => /\ cells[i].top = cells'[i].top
                                 /\ cells[i].bot = cells'[i].bot
                                 /\ cells[i].left = cells'[i].left
                                 /\ cells[i].right = cells'[i].right]_vars

C10_Witness ==
    /\ steps >= 2
    /\ next = None
    /\ stack # <<>>
    /\ \E i \in CellIdx : At(cells, i).visited /\ ~AllWalls(At(cells, i))
    /\ \E i \in CellIdx : ~At(cells, i).visited

\* C11: a construction with rows = 0 or cols = 0 ends in an explicit error,
\* never in a grid and never in an abort.
C11_ZeroDimensionRejected ==
    (rows = 0 \/ cols = 0) => outcome = "error"

\* The four wall flags of c and d agree.
SameWalls(c, d) ==
    /\ c.top = d.top
    /\ c.bot = d.bot
    /\ c.left = d.left
    /\ c.right = d.right

\* The step taken called remove_wall (next is Some after it).
Descend == Step /\ next' # None

\* C13: a step whose remove_wall call gets a next that is not 4-adjacent to
\* current leaves every wall flag of every cell unchanged.
C13_NonAdjacentNoEffect ==
    [][(Descend /\ ~Adjacent(current, next')) =>
         \A i \in 1..Len(cells) : SameWalls(cells[i], cells'[i])]_vars

\* The wall flags of a cell.
Walls(c) == [top |-> c.top, bot |-> c.bot, left |-> c.left, right |-> c.right]

\* The wall flags of c with the one on `side` cleared.
WallsAfter(c, side) ==
    [top   |-> c.top /\ side # "top",
     bot   |-> c.bot /\ side # "bot",
     left  |-> c.left /\ side # "left",
     right |-> c.right /\ side # "right"]

\* The side of cell a that faces the adjacent cell b.
SideToward(a, b) ==
    LET A == At(cells, a)
        B == At(cells, b)
    IN  IF B.col = A.col + 1 THEN "right"
        ELSE IF B.col = A.col - 1 THEN "left"
        ELSE IF B.row = A.row + 1 THEN "bot"
        ELSE "top"

\* Number of wall flags that are false in the cell vector cs.
ClearedFlags(cs) ==
    Cardinality({x \in (1..Len(cs)) \X {"top", "bot", "left", "right"} :
                   ~Walls(cs[x[1]])[x[2]]})

\* C14: in every step that calls remove_wall, next is 4-adjacent to current,
\* the wall pair between the two cells stood before and is cleared, and no
\* other wall flag of any cell changes.
C14_DescendClearsFacingPair ==
    [][Descend =>
         /\ Adjacent(current, next')
         /\ WallToward(current, next') /\ WallToward(next', current)
         /\ \A i \in CellIdx :
              Walls(At(cells', i)) =
                IF i = current
                THEN WallsAfter(At(cells, i), SideToward(current, next'))
                ELSE IF i = next'
                THEN WallsAfter(At(cells, i), SideToward(next', current))
                ELSE Walls(At(cells, i))]_vars

\* C15: every step is a descend (stack grows by the old current, exactly one
\* wall pair, two flags, is removed, current becomes next), a backtrack
\* (next None, the stack loses its top, which becomes current, no wall flag
\* changes) or a no-op at Complete; the only visited flag that may change is
\* the old current's, which is true afterwards.
C15_StepIsDescendBacktrackOrNoop ==
    [][Step =>
         /\ \/ /\ next' # None
               /\ stack' = Append(stack, current)
               /\ current' = next'
               /\ ClearedFlags(cells') = ClearedFlags(cells) + 2
            \/ /\ next' = None
               /\ stack # <<>>
               /\ stack' = SubSeq(stack, 1, Len(stack) - 1)
               /\ current' = stack[Len(stack)]
               /\ \A i \in 1..Len(cells) : SameWalls(cells[i], cells'[i])
            \/ /\ Complete
               /\ next' = None
               /\ stack' = stack
               /\ current' = current
               /\ cells' = cells
         /\ Len(cells') = Len(cells)
         /\ At(cells', current).visited
         /\ \A i \in CellIdx :
              i # current => At(cells', i).visited = At(cells, i).visited]_vars

\* C16: the stack followed by current is a sequence of pairwise distinct
\* cell indices that begins with the starting cell, consecutive entries are
\* 4-adjacent with the wall pair between them removed, and every cell on
\* the stack is visited.
C16_StackIsCommittedPath ==
    LET path == Append(stack, current) IN
    /\ \A j \in 1..Len(path), k \in 1..Len(path) :
         path[j] = path[k] => j = k
    /\ path[1] = origin
    /\ \A k \in 1..(Len(path) - 1) : Open(path[k], path[k + 1])
    /\ \A k \in 1..Len(stack) : At(cells, stack[k]).visited

\* C17: current, every index on the stack and next when it is Some are
\* indices into cells, whose length stays rows * cols.
C17_IndicesInRange ==
    /\ Len(cells) = rows * cols
    /\ current \in CellIdx
    /\ \A k \in 1..Len(stack) : stack[k] \in CellIdx
    /\ next # None => next \in CellIdx

\* A step was taken from a cell one of whose candidates index reported as
\* Some although it lies outside the cell vector.
C17_Witness ==
    /\ steps >= 1
    /\ next # None
    /\ stack # <<>>
    /\ \E k \in 1..4 :
         LET i == neighbor_index([Grid EXCEPT !.current = stack[Len(stack)]])[k]
         IN  i # None /\ ~InVec(cells, i)

\* The step in the order of the specification (4.4): mark current visited
\* first, then draw next from the marked grid.
step_MarkFirst(g, r) ==
    LET gm  == [g EXCEPT !.cells[g.current + 1].visited = TRUE]
        nxt == get_random_neighbor(gm, r)
    IN  IF nxt # None
        THEN [gm EXCEPT !.next = nxt,
                        !.cells = remove_wall(gm.cells, gm.current, nxt),
                        !.stack = Append(gm.stack, gm.current),
                        !.current = nxt]
        ELSE [gm EXCEPT !.next = None,
                        !.current = pop_back(gm.stack, gm.current)[1],
                        !.stack = pop_back(gm.stack, gm.current)[2]]

\* C18: current is never among the candidates get_random_neighbor examines,
\* so marking current visited before or after the draw offers the same
\* candidates and, for every draw, yields the same successor grid.
C18_OrderEquivalent ==
    LET gm == [Grid EXCEPT !.cells[current + 1].visited = TRUE] IN
    /\ \A k \in 1..4 : neighbor_index(Grid)[k] # current
    /\ neighbors(Grid) = neighbors(gm)
    /\ \A r \in 0..(Draws(Grid) - 1) :
         update_current(Grid, r) = step_MarkFirst(Grid, r)

\* Number of update_current calls a grid of rows * cols cells needs.
TargetCalls == IF rows * cols = 1 THEN 1 ELSE 2 * (rows * cols - 1)

\* Cells that have been current so far: the visited ones and current.
Discovered == {i \in CellIdx : At(cells, i).visited \/ i = current}

\* C19: on a square grid, counting the call made by Grid::new, the grid is
\* Complete with every cell visited exactly from call max(1, 2 * (N - 1))
\* on, and up to then the calls made are the descends (one per discovered
\* cell but the first) plus the backtracks (the descends no longer on the
\* stack).
C19_ExactStepCount ==
    (rows = cols /\ steps < MaxSteps) =>
      /\ (Complete /\ AllVisited) <=> (steps + 1 >= TargetCalls)
      /\ steps + 1 <= TargetCalls =>
           steps + 1 = IF rows * cols = 1 THEN 1
                       ELSE 2 * (Cardinality(Discovered) - 1) - Len(stack)

C19_Witness ==
    /\ rows = 3
    /\ cols = 3
    /\ steps + 1 = TargetCalls
    /\ Complete
    /\ AllVisited
    /\ Cardinality(RemovedPairs) = 8

\* C20: on a square grid no wall on the outer boundary is ever removed.
C20_BoundaryIntact ==
    rows = cols =>
      \A i \in CellIdx :
        LET c == At(cells, i) IN
        /\ c.row = 0 => c.top
        /\ c.row = rows - 1 => c.bot
        /\ c.col = 0 => c.left
        /\ c.col = cols - 1 => c.right

C20_Witness ==
    /\ rows = 3
    /\ cols = 3
    /\ AllVisited
    /\ ~At(cells, 0).right
    /\ ~At(cells, 0).bot
    /\ ~At(cells, 8).left
    /\ ~At(cells, 8).top

====
